---- MODULE Spec2Model ----
(***************************************************************************)
(* p0f-go: the protocol engine of package p0f (src/unnamed/part_002) and   *)
(* the handler of its HTTP front end (src/main.go).                        *)
(*                                                                         *)
(* Spec       the engine as a concurrent program: callers of Query,        *)
(*            callers of Shutdown and the background goroutine start,      *)
(*            interleaved at the granularity of their channel, atomic and  *)
(*            WaitGroup operations.                                        *)
(* FairSpec   Spec with weak fairness on the steps of start (the Go        *)
(*            scheduler runs a runnable goroutine; the daemon answers).    *)
(* CodecSpec  readResponse and trstr as pure functions applied to frames   *)
(*            drawn from a bounded set.                                    *)
(* LiveSpec   Spec with weak fairness on start and on the close of a       *)
(*            Shutdown call that won the CompareAndSwap.                   *)
(* WireSpec   writeRequest, binary.Read and readResponse on bytes, for     *)
(*            both byte orders.                                            *)
(* StreamSpec the exchanges of start over a socket that hands over the     *)
(*            daemon's bytes in chunks.                                    *)
(* HttpSpec   one request going through the HTTP handler.                  *)
(***************************************************************************)
EXTENDS Integers, Sequences, FiniteSets, TLC

(***************************************************************************)
(* Bounds of the model.                                                    *)
(***************************************************************************)
\* goroutines that call Query once each
NumCallers == 3
\* goroutines that call Shutdown once each
NumStoppers == 2
\* capacity of the request channel. The program's value is 1024
\* (part_002:15); the model runs the same code with a small buffer so that
\* "full" is reachable with NumCallers callers.
requestChanSize == 2
\* exchanges start runs over the stream socket in StreamSpec
MaxExchanges == 3

Callers == 1..NumCallers
Stoppers == 1..NumStoppers

(***************************************************************************)
(* Program constants (part_002:14-31).                                     *)
(***************************************************************************)
resultBadQuery == 0
resultOk == 16
resultNoMatch == 32
p0fStrMax == 32
magicBytesSend == 1345340929
magicBytesRcv == 1345340930

(***************************************************************************)
(* Values.                                                                 *)
(***************************************************************************)
\* a nil error
NoErr == "nil"
ErrShutdown == "P0f::Shutdown previously called"
ErrCapacity == "requestQueue at capacity"
ErrMagic == "invalid magic bytes in response"
ErrBadQuery == "bad query"
ErrNoMatch == "no match"
ErrWrite == "conn.Write error"
ErrRead == "conn.Read error"
\* fmt.Errorf("unknown response code %d", status)
ErrUnknown(status) == "unknown response code " \o ToString(status)

\* a *string: nil, or a pointer to a Go string (a sequence of bytes)
NilStr == [null |-> TRUE, str |-> << >>]
StrPtr(s) == [null |-> FALSE, str |-> s]

\* net.IP.String() of the address a caller queries, and the empty Go string
NoIp == [set |-> FALSE, addr |-> 0]
IpString(ip) == [set |-> TRUE, addr |-> ip]

\* the zero value of P0fResponse
ZeroResponse ==
    [Ip |-> NoIp, FirstSeen |-> 0, LastSeen |-> 0, TotalCount |-> 0,
     UptimeMin |-> 0, UpModDays |-> 0, LastNat |-> 0, LastChg |-> 0,
     Distance |-> 0, BadSw |-> 0, OsMatchQ |-> 0,
     OsName |-> NilStr, OsFlavor |-> NilStr, HttpName |-> NilStr,
     HttpFlavor |-> NilStr, LinkMtu |-> 0, LinkType |-> NilStr,
     Language |-> NilStr]

(***************************************************************************)
(* trstr (part_002:231-246): a fixed 32-byte C string buffer to *string.   *)
(* cStr is the buffer as a sequence, cStr[1] being Go's cStr[0].           *)
(***************************************************************************)
RECURSIVE FirstNull(_, _)
\* the loop of lines 236-242: the least Go index i >= from with cStr[i] = 0,
\* or len(cStr) when the loop runs to its end
FirstNull(cStr, from) ==
    IF from >= Len(cStr) THEN Len(cStr)
    ELSE IF cStr[from + 1] = 0 THEN from
    ELSE FirstNull(cStr, from + 1)

\* trstr cutting one byte late: string(cStr[0:i+1])
trstrKeepNull(cStr) ==
    IF cStr[1] = 0 THEN NilStr
    ELSE IF FirstNull(cStr, 1) < Len(cStr)
    THEN StrPtr(SubSeq(cStr, 1, FirstNull(cStr, 1) + 1))
    ELSE StrPtr(cStr)

trstr(cStr) ==
    IF cStr[1] = 0 THEN NilStr
    ELSE StrPtr(SubSeq(cStr, 1, FirstNull(cStr, 1)))

(***************************************************************************)
(* readResponse (part_002:161-229).  rd is what conn.Read and binary.Read  *)
(* left in r: rd.err is the error of conn.Read, rd.r the decoded struct.   *)
(***************************************************************************)
\* lines 200-219: the response built from r when the status is resultOk
okResponse(ip, r) ==
    [Ip |-> ip,
     FirstSeen |-> r.FirstSeen, LastSeen |-> r.LastSeen,
     TotalCount |-> r.TotalCount, UptimeMin |-> r.UptimeMin,
     UpModDays |-> r.UpModDays, LastNat |-> r.LastNat,
     LastChg |-> r.LastChg, Distance |-> r.Distance,
     BadSw |-> r.BadSw, OsMatchQ |-> r.OsMatchQ,
     OsName |-> trstr(r.OsName), OsFlavor |-> trstr(r.OsFlavor),
     HttpName |-> trstr(r.HttpName), HttpFlavor |-> trstr(r.HttpFlavor),
     LinkMtu |-> r.LinkMtu,
     LinkType |-> trstr(r.LinkType), Language |-> trstr(r.Language)]

\* readResponse with the status switch ahead of the magic check
readResponseStatusFirst(ip, rd) ==
    IF rd.err # NoErr THEN <<ZeroResponse, rd.err>>
    ELSE IF rd.r.Status = resultOk THEN <<okResponse(ip, rd.r), NoErr>>
    ELSE IF rd.r.Status = resultBadQuery THEN <<ZeroResponse, ErrBadQuery>>
    ELSE IF rd.r.Status = resultNoMatch THEN <<ZeroResponse, ErrNoMatch>>
    ELSE IF rd.r.Magic # magicBytesRcv THEN <<ZeroResponse, ErrMagic>>
    ELSE <<ZeroResponse, ErrUnknown(rd.r.Status)>>

readResponse(ip, rd) ==
    IF rd.err # NoErr THEN <<ZeroResponse, rd.err>>
    ELSE IF rd.r.Magic # magicBytesRcv THEN <<ZeroResponse, ErrMagic>>
    ELSE IF rd.r.Status = resultOk THEN <<okResponse(ip, rd.r), NoErr>>
    ELSE IF rd.r.Status = resultBadQuery THEN <<ZeroResponse, ErrBadQuery>>
    ELSE IF rd.r.Status = resultNoMatch THEN <<ZeroResponse, ErrNoMatch>>
    ELSE <<ZeroResponse, ErrUnknown(rd.r.Status)>>

(***************************************************************************)
(* Frames the daemon may answer with.  r is the struct of part_002:164-184 *)
(* after binary.Read.                                                      *)
(***************************************************************************)
\* a 32-byte buffer: n bytes equal to a, then a zero byte, then bytes t
MkBuf(n, a, t) ==
    [i \in 1..p0fStrMax |-> IF i <= n THEN a ELSE IF i = n + 1 THEN 0 ELSE t]

\* "Linux" padded with zeros
LinuxBuf ==
    [i \in 1..p0fStrMax |->
        IF i <= 5 THEN <<76, 105, 110, 117, 120>>[i] ELSE 0]

MkFrame(magic, status, num, os) ==
    [Magic |-> magic, Status |-> status,
     FirstSeen |-> num, LastSeen |-> num + 1, TotalCount |-> num + 2,
     UptimeMin |-> num + 3, UpModDays |-> num + 4, LastNat |-> num + 5,
     LastChg |-> num + 6, Distance |-> num + 7, BadSw |-> 1, OsMatchQ |-> 2,
     OsName |-> os, OsFlavor |-> MkBuf(0, 0, 0), HttpName |-> MkBuf(0, 0, 0),
     HttpFlavor |-> MkBuf(0, 0, 0), LinkMtu |-> 1500,
     LinkType |-> MkBuf(0, 0, 0), Language |-> MkBuf(0, 0, 0)]

\* what conn.Read and binary.Read may leave to one exchange of start: a
\* whole frame with the right magic, reporting a match or no match.  (Every
\* other kind of frame, and the error of conn.Read, run through
\* readResponse in CodecSpec.)
DaemonReplies ==
    {[err |-> NoErr, r |-> MkFrame(magicBytesRcv, st, 7, LinuxBuf)] :
        st \in {resultOk, resultNoMatch}}

\* what readResponse is applied to in CodecSpec: conn.Read failing or not,
\* each magic, each known status and some unknown ones, and as OsName a
\* buffer with its first zero byte at every offset 0..31 or nowhere
CodecBuffers ==
    {MkBuf(n, a, t) : n \in 0..p0fStrMax, a \in {65, 200}, t \in {0, 67}}
CodecReads ==
    {[err |-> e, r |-> MkFrame(m, st, num, os)] :
        e \in {NoErr, ErrRead},
        m \in {magicBytesRcv, magicBytesSend, 0},
        st \in {resultBadQuery, resultOk, resultNoMatch, 1, 17, 48},
        num \in {0, 7}, os \in CodecBuffers}

(***************************************************************************)
(* State.                                                                  *)
(***************************************************************************)
(***************************************************************************)
(* Bytes on the wire.  A byte is 0..255, a buffer a sequence of bytes, and *)
(* binary.NativeEndian is the byte order of the machine the build runs on: *)
(* "little" or "big".                                                      *)
(***************************************************************************)
requestSize == 21
responseSize == 44 + (32 * 6)
ipv4Dword == 4
ipv6Dword == 6

Endians == {"little", "big"}

Zeros(n) == [i \in 1..n |-> 0]

\* the unsigned integer a run of bytes stands for
RECURSIVE LittleUint(_)
LittleUint(bs) ==
    IF bs = << >> THEN 0 ELSE bs[1] + 256 * LittleUint(Tail(bs))

Reverse(bs) == [i \in 1..Len(bs) |-> bs[Len(bs) + 1 - i]]

Uint(bs, endian) ==
    IF endian = "little" THEN LittleUint(bs) ELSE LittleUint(Reverse(bs))

\* binary.NativeEndian.PutUint32
PutUint32(v, endian) ==
    LET le == [i \in 1..4 |-> (v \div (256 ^ (i - 1))) % 256]
    IN  IF endian = "little" THEN le ELSE Reverse(le)

\* net.IP.To4 and net.IP.To16 (<< >> is nil): a 16-byte address with the
\* prefix ::ffff:0:0/96 is an IPv4 address to To4
IsV4Mapped(ip) ==
    /\ Len(ip) = 16
    /\ \A i \in 1..10 : ip[i] = 0
    /\ ip[11] = 255 /\ ip[12] = 255

To4(ip) ==
    IF Len(ip) = 4 THEN ip
    ELSE IF IsV4Mapped(ip) THEN SubSeq(ip, 13, 16)
    ELSE << >>

To16(ip) ==
    IF Len(ip) = 4 THEN Zeros(10) \o <<255, 255>> \o ip
    ELSE IF Len(ip) = 16 THEN ip
    ELSE << >>

\* the request buffer with the family byte and the address bytes set
RequestBuffer(endian, family, addr) ==
    [i \in 1..requestSize |->
        IF i <= 4 THEN PutUint32(magicBytesSend, endian)[i]
        ELSE IF i = 5 THEN family
        ELSE IF i - 5 <= Len(addr) THEN addr[i - 5]
        ELSE 0]

\* a request buffer whose family byte follows the length of the address
writeRequestByLen(ip, endian) ==
    IF Len(ip) = 4
      THEN RequestBuffer(endian, ipv4Dword, ip)
      ELSE RequestBuffer(endian, ipv6Dword, To16(ip))

\* lines 143-156: the buffer writeRequest hands to p.conn.Write
writeRequest(ip, endian) ==
    IF To4(ip) # << >>
      THEN RequestBuffer(endian, ipv4Dword, To4(ip))
      ELSE RequestBuffer(endian, ipv6Dword, To16(ip))

\* the addresses writeRequest is applied to: 4-byte ones, 16-byte ones
\* that are IPv4-mapped (what net.ParseIP returns for dotted text),
\* 16-byte ones that are not, and slices that are no address at all
Ip4s == {<<192, 0, 2, 1>>, <<10, 255, 0, 7>>}
Ip16s ==
    {<<32, 1, 13, 184, 0, 0, 0, 0, 0, 0, 0, 0, 0, 0, 0, 1>>,
     Zeros(15) \o <<1>>,
     Zeros(10) \o <<255, 254, 192, 0, 2, 1>>,
     <<254, 128>> \o Zeros(8) \o <<255, 255, 1, 2, 3, 4>>}
WireIps ==
    Ip4s \cup {To16(ip) : ip \in Ip4s} \cup Ip16s
        \cup {<< >>, <<1, 2, 3, 4, 5>>}

\* lines 164-184: the fields of the struct r in order, and the bytes
\* binary.Read takes for each (binary.Size: no padding between fields)
FieldNames ==
    <<"Magic", "Status", "FirstSeen", "LastSeen", "TotalCount", "UptimeMin",
      "UpModDays", "LastNat", "LastChg", "Distance", "BadSw", "OsMatchQ",
      "OsName", "OsFlavor", "HttpName", "HttpFlavor", "LinkMtu", "LinkType",
      "Language">>
FieldSizes ==
    <<4, 4, 4, 4, 4, 4, 4, 4, 4, 2, 1, 1, p0fStrMax, p0fStrMax, p0fStrMax,
      p0fStrMax, 2, p0fStrMax, p0fStrMax>>
NumericFields == {k \in 1..Len(FieldNames) : FieldSizes[k] <= 4}

\* the offset of the first byte after field k; FieldEnd(0) = 0
RECURSIVE FieldEnd(_)
FieldEnd(k) == IF k = 0 THEN 0 ELSE FieldEnd(k - 1) + FieldSizes[k]

\* binary.Size(&r)
binarySize == FieldEnd(Len(FieldSizes))

FieldBytes(bytes, k) == SubSeq(bytes, FieldEnd(k - 1) + 1, FieldEnd(k))

FieldIndex(name) == CHOOSE k \in 1..Len(FieldNames) : FieldNames[k] = name

\* line 191: binary.Read of the struct r from the bytes of responseBytes;
\* it fails when the bytes end before the struct does
binaryRead(bytes, endian) ==
    LET num(name) == Uint(FieldBytes(bytes, FieldIndex(name)), endian)
        str(name) == FieldBytes(bytes, FieldIndex(name))
    IN  IF Len(bytes) < binarySize
          THEN [err |-> ErrRead, r |-> << >>]
          ELSE [err |-> NoErr,
                r |-> [Magic |-> num("Magic"), Status |-> num("Status"),
                       FirstSeen |-> num("FirstSeen"),
                       LastSeen |-> num("LastSeen"),
                       TotalCount |-> num("TotalCount"),
                       UptimeMin |-> num("UptimeMin"),
                       UpModDays |-> num("UpModDays"),
                       LastNat |-> num("LastNat"),
                       LastChg |-> num("LastChg"),
                       Distance |-> num("Distance"),
                       BadSw |-> num("BadSw"),
                       OsMatchQ |-> num("OsMatchQ"),
                       OsName |-> str("OsName"),
                       OsFlavor |-> str("OsFlavor"),
                       HttpName |-> str("HttpName"),
                       HttpFlavor |-> str("HttpFlavor"),
                       LinkMtu |-> num("LinkMtu"),
                       LinkType |-> str("LinkType"),
                       Language |-> str("Language")]]

\* the responseSize bytes a daemon may answer with: the right magic and
\* the status resultOk in the byte order of the machine, every other byte
\* following a pattern (kept under 128 so that every 32-bit field stays
\* under 2^31)
WireFrame(endian, m, a) ==
    [i \in 1..responseSize |->
        IF i <= 4 THEN PutUint32(magicBytesRcv, endian)[i]
        ELSE IF i <= 8 THEN PutUint32(resultOk, endian)[i - 4]
        ELSE (i * m + a) % 128]
WireFrames(endian) == {WireFrame(endian, m, a) : m \in {1, 7}, a \in {0, 3}}

(***************************************************************************)
(* The HTTP front end: text of addresses as sequences of tokens.           *)
(***************************************************************************)
\* what net.ParseIP accepts among the host texts used here
IpLiterals ==
    [h \in {"192.0.2.1", "2001:db8::1"} |->
        IF h = "192.0.2.1"
          THEN To16(<<192, 0, 2, 1>>)
          ELSE <<32, 1, 13, 184, 0, 0, 0, 0, 0, 0, 0, 0, 0, 0, 0, 1>>]
ParseIP(host) ==
    IF host \in DOMAIN IpLiterals THEN IpLiterals[host] ELSE << >>

\* host texts that hold a colon themselves
ColonHosts == {"2001:db8::1"}

\* net.SplitHostPort: host:port or [host]:port
ErrAddr == "invalid address"
SplitHostPort(addr) ==
    IF Len(addr) = 5 /\ addr[1] = "[" /\ addr[3] = "]" /\ addr[4] = ":"
      THEN [host |-> addr[2], err |-> NoErr]
    ELSE IF Len(addr) = 3 /\ addr[2] = ":" /\ addr[1] \notin ColonHosts
                /\ addr[1] # "["
      THEN [host |-> addr[1], err |-> NoErr]
    ELSE [host |-> "", err |-> ErrAddr]

\* what ipResolver(r) may return: r.RemoteAddr of a TCP peer, or any text
\* a resolver of the embedding program takes from the request
RemoteAddrs ==
    {<<"192.0.2.1", ":", "4711">>,
     <<"[", "2001:db8::1", "]", ":", "4711">>,
     <<"2001:db8::1", ":", "4711">>,
     <<"192.0.2.1">>,
     <<"example.net", ":", "80">>,
     << >>}
Methods == {"GET", "POST", "HEAD"}

\* http.Header.Set
HeaderSet(header, name, value) ==
    {h \in header : h[1] # name} \cup {<<name, value>>}

\* what p.Query returns to the handler
QueryReturns ==
    {<<okResponse(IpString(1), MkFrame(magicBytesRcv, resultOk, 7, LinuxBuf)),
       NoErr>>}
    \cup {<<ZeroResponse, e>> :
            e \in {ErrShutdown, ErrCapacity, ErrMagic, ErrBadQuery,
                   ErrNoMatch, ErrWrite, ErrRead, ErrUnknown(48)}}

\* the chunks in which the socket may hand over the bytes of a reply
ChunkSizes == {100, responseSize - 100, responseSize}

VARIABLES
    shutdown,       \* P0f.shutdown (atomic.Bool)
    requestQueue,   \* P0f.requestQueue: the channel's buffer, oldest first
    chanClosed,     \* close(p.requestQueue) has run
    connClosed,     \* P0f.conn has been closed
    reqResponse,    \* p0fRequest.response of the request of each caller
    reqErr,         \* p0fRequest.err of the request of each caller
    wg,             \* the counter of p0fRequest.wg of each caller
    qpc,            \* where each caller of Query is
    ret,            \* what each Query call returned: <<response, err>>
    spc,            \* where each caller of Shutdown is
    wpc,            \* where the goroutine start is
    request,        \* the request start holds (a caller), 0 when none
    accepted,       \* history: the requests sent on the channel, in order
    closes,         \* history: number of close(p.requestQueue) executed
    fires,          \* history: number of wg.Done() per request
    stores,         \* history: number of stores to response/err per request
    connHist,       \* history of P0f.conn: requests written and not yet
                    \* answered by a read, calls of Close, and writes or
                    \* reads issued after Close
    cpc,            \* codec: which functions have been applied
    frame,          \* codec: what conn.Read and binary.Read left: err, r
    decoded,        \* codec: what readResponse returned
    goStr,          \* codec: what trstr returned for frame.OsName
    wire,           \* wire: an address, a reply, the byte order, and what
                    \* writeRequest and binary.Read made of them
    stream,         \* stream: the bytes of the daemon's replies in the
                    \* socket and the bytes each exchange read
    http            \* http: one request going through the handler

engineVars ==
    <<shutdown, requestQueue, chanClosed, connClosed, reqResponse, reqErr, wg,
      qpc, ret, spc, wpc, request, accepted, closes, fires, stores,
      connHist>>
codecVars == <<cpc, frame, decoded, goStr, wire, stream, http>>
vars == <<engineVars, codecVars>>

\* the address caller c passes to Query
IpOf(c) == c

NoRet == <<ZeroResponse, "none">>

\* New (part_002:70-82): the connection is dialled, the queue is empty, the
\* flag is false and start is running
EngineInit ==
    /\ shutdown = FALSE
    /\ requestQueue = << >>
    /\ chanClosed = FALSE
    /\ connClosed = FALSE
    /\ reqResponse = [c \in Callers |-> ZeroResponse]
    /\ reqErr = [c \in Callers |-> NoErr]
    /\ wg = [c \in Callers |-> 0]
    /\ qpc = [c \in Callers |-> "idle"]
    /\ ret = [c \in Callers |-> NoRet]
    /\ spc = [s \in Stoppers |-> "idle"]
    /\ wpc = "loop"
    /\ request = 0
    /\ accepted = << >>
    /\ closes = 0
    /\ fires = [c \in Callers |-> 0]
    /\ stores = [c \in Callers |-> 0]
    /\ connHist = [unanswered |-> 0, closes |-> 0, late |-> 0]

FrontIdle ==
    /\ wire = << >>
    /\ stream = << >>
    /\ http = << >>

CodecIdle ==
    /\ cpc = {}
    /\ frame = << >>
    /\ decoded = << >>
    /\ goStr = << >>
    /\ FrontIdle

Init == EngineInit /\ CodecIdle

(***************************************************************************)
(* Query (part_002:86-104).                                                *)
(***************************************************************************)
\* Query without the check of lines 87-90
QueryLoadUnchecked(c) ==
    /\ qpc[c] = "idle"
    /\ IF c = 1 THEN TRUE ELSE qpc[c - 1] # "idle"
    /\ qpc' = [qpc EXCEPT ![c] = "select"]
    /\ wg' = [wg EXCEPT ![c] = 1]
    /\ UNCHANGED <<shutdown, requestQueue, chanClosed, connClosed, connHist,
                   reqResponse, reqErr, ret, spc, wpc, request, accepted,
                   closes, fires, stores>>
    /\ UNCHANGED codecVars

\* lines 87-94: the shutdown check, then the request and its WaitGroup
QueryLoad(c) ==
    /\ qpc[c] = "idle"
    \* callers are numbered in the order in which they call Query
    /\ IF c = 1 THEN TRUE ELSE qpc[c - 1] # "idle"
    /\ IF shutdown
         THEN /\ qpc' = [qpc EXCEPT ![c] = "returned"]
              /\ ret' = [ret EXCEPT ![c] = <<ZeroResponse, ErrShutdown>>]
              /\ wg' = wg
         ELSE /\ qpc' = [qpc EXCEPT ![c] = "select"]
              /\ wg' = [wg EXCEPT ![c] = 1]
              /\ ret' = ret
    /\ UNCHANGED <<shutdown, requestQueue, chanClosed, connClosed, connHist,
                   reqResponse, reqErr, spc, wpc, request, accepted, closes,
                   fires, stores>>
    /\ UNCHANGED codecVars

\* the send with an off-by-one buffer test: it accepts one request more than
\* the channel holds
QuerySelectOverfill(c) ==
    /\ qpc[c] = "select"
    /\ IF chanClosed
         THEN /\ qpc' = [qpc EXCEPT ![c] = "panicked"]
              /\ UNCHANGED <<requestQueue, accepted, ret>>
         ELSE IF Len(requestQueue) <= requestChanSize
         THEN /\ requestQueue' = Append(requestQueue, c)
              /\ accepted' = Append(accepted, c)
              /\ qpc' = [qpc EXCEPT ![c] = "wait"]
              /\ ret' = ret
         ELSE /\ qpc' = [qpc EXCEPT ![c] = "returned"]
              /\ ret' = [ret EXCEPT ![c] = <<ZeroResponse, ErrCapacity>>]
              /\ UNCHANGED <<requestQueue, accepted>>
    /\ UNCHANGED <<shutdown, chanClosed, connClosed, connHist, reqResponse,
                   reqErr, wg, spc, wpc, request, closes, fires, stores>>
    /\ UNCHANGED codecVars

\* lines 96-103: the non-blocking send.  A send on a closed channel panics
\* (also inside select, also when the buffer is full); a send with room in
\* the buffer succeeds; otherwise the default case runs.
QuerySelect(c) ==
    /\ qpc[c] = "select"
    /\ IF chanClosed
         THEN /\ qpc' = [qpc EXCEPT ![c] = "panicked"]
              /\ UNCHANGED <<requestQueue, accepted, ret>>
         ELSE IF Len(requestQueue) < requestChanSize
         THEN /\ requestQueue' = Append(requestQueue, c)
              /\ accepted' = Append(accepted, c)
              /\ qpc' = [qpc EXCEPT ![c] = "wait"]
              /\ ret' = ret
         ELSE /\ qpc' = [qpc EXCEPT ![c] = "returned"]
              /\ ret' = [ret EXCEPT ![c] = <<ZeroResponse, ErrCapacity>>]
              /\ UNCHANGED <<requestQueue, accepted>>
    /\ UNCHANGED <<shutdown, chanClosed, connClosed, connHist, reqResponse,
                   reqErr, wg, spc, wpc, request, closes, fires, stores>>
    /\ UNCHANGED codecVars

\* Query without the wg.Wait() of line 98
QueryWaitEarly(c) ==
    /\ qpc[c] = "wait"
    /\ qpc' = [qpc EXCEPT ![c] = "returned"]
    /\ ret' = [ret EXCEPT ![c] = <<reqResponse[c], reqErr[c]>>]
    /\ UNCHANGED <<shutdown, requestQueue, chanClosed, connClosed, connHist,
                   reqResponse, reqErr, wg, spc, wpc, request, accepted,
                   closes, fires, stores>>
    /\ UNCHANGED codecVars

\* lines 98-100: wg.Wait() returns once the counter is zero
QueryWait(c) ==
    /\ qpc[c] = "wait"
    /\ wg[c] = 0
    /\ qpc' = [qpc EXCEPT ![c] = "returned"]
    /\ ret' = [ret EXCEPT ![c] = <<reqResponse[c], reqErr[c]>>]
    /\ UNCHANGED <<shutdown, requestQueue, chanClosed, connClosed, connHist,
                   reqResponse, reqErr, wg, spc, wpc, request, accepted,
                   closes, fires, stores>>
    /\ UNCHANGED codecVars

(***************************************************************************)
(* Shutdown (part_002:108-117).                                            *)
(***************************************************************************)
\* Shutdown with Store(true) in place of CompareAndSwap(false, true)
ShutdownStore(s) ==
    /\ spc[s] = "idle"
    /\ IF s = 1 THEN TRUE ELSE spc[s - 1] # "idle"
    /\ shutdown' = TRUE
    /\ spc' = [spc EXCEPT ![s] = "close"]
    /\ UNCHANGED <<requestQueue, chanClosed, connClosed, connHist,
                   reqResponse, reqErr, wg, qpc, ret, wpc, request, accepted,
                   closes, fires, stores>>
    /\ UNCHANGED codecVars

\* line 114: CompareAndSwap(false, true)
ShutdownCAS(s) ==
    /\ spc[s] = "idle"
    \* callers are numbered in the order in which they call Shutdown
    /\ IF s = 1 THEN TRUE ELSE spc[s - 1] # "idle"
    /\ IF shutdown = FALSE
         THEN shutdown' = TRUE /\ spc' = [spc EXCEPT ![s] = "close"]
         ELSE shutdown' = shutdown /\ spc' = [spc EXCEPT ![s] = "done"]
    /\ UNCHANGED <<requestQueue, chanClosed, connClosed, connHist,
                   reqResponse, reqErr, wg, qpc, ret, wpc, request, accepted,
                   closes, fires, stores>>
    /\ UNCHANGED codecVars

\* line 115: close(p.requestQueue); closing a closed channel panics and the
\* deferred recover of lines 109-113 logs it
ShutdownClose(s) ==
    /\ spc[s] = "close"
    /\ chanClosed' = TRUE
    /\ closes' = closes + 1
    /\ spc' = [spc EXCEPT ![s] = "done"]
    /\ UNCHANGED <<shutdown, requestQueue, connClosed, connHist, reqResponse,
                   reqErr, wg, qpc, ret, wpc, request, accepted, fires,
                   stores>>
    /\ UNCHANGED codecVars

(***************************************************************************)
(* start (part_002:121-140).                                               *)
(***************************************************************************)
\* the history after p.conn.Close() (line 122), after a p.conn.Write that
\* returned err (line 157) and after the p.conn.Read of line 188
connClose(h) == [h EXCEPT !.closes = @ + 1]
connWrite(h, err) ==
    [h EXCEPT !.unanswered = IF err = NoErr THEN @ + 1 ELSE @,
              !.late = IF connClosed THEN @ + 1 ELSE @]
connRead(h) ==
    [h EXCEPT !.unanswered = IF @ > 0 THEN @ - 1 ELSE @,
              !.late = IF connClosed THEN @ + 1 ELSE @]

\* start without the deferred p.conn.Close() of line 122
startLoopLeak ==
    /\ wpc = "loop"
    /\ wpc' = IF shutdown THEN "exited" ELSE "recv"
    /\ UNCHANGED <<shutdown, requestQueue, chanClosed, connClosed, connHist,
                   reqResponse, reqErr, wg, qpc, ret, spc, request, accepted,
                   closes, fires, stores>>
    /\ UNCHANGED codecVars

\* line 124: the loop condition; leaving the loop runs the deferred
\* p.conn.Close() of line 122
startLoop ==
    /\ wpc = "loop"
    /\ IF shutdown
         THEN /\ wpc' = "exited"
              /\ connClosed' = TRUE
              /\ connHist' = connClose(connHist)
         ELSE /\ wpc' = "recv"
              /\ UNCHANGED <<connClosed, connHist>>
    /\ UNCHANGED <<shutdown, requestQueue, chanClosed, reqResponse, reqErr,
                   wg, qpc, ret, spc, request, accepted, closes, fires,
                   stores>>
    /\ UNCHANGED codecVars

\* a receive that takes the newest buffered request
startRecvNewest ==
    /\ wpc = "recv"
    /\ requestQueue # << >> \/ chanClosed
    /\ IF requestQueue # << >>
         THEN /\ request' = requestQueue[Len(requestQueue)]
              /\ requestQueue' = SubSeq(requestQueue, 1, Len(requestQueue) - 1)
              /\ wpc' = "write"
              /\ UNCHANGED <<connClosed, connHist>>
         ELSE /\ wpc' = "exited"
              /\ connClosed' = TRUE
              /\ connHist' = connClose(connHist)
              /\ UNCHANGED <<request, requestQueue>>
    /\ UNCHANGED <<shutdown, chanClosed, reqResponse, reqErr, wg, qpc, ret,
                   spc, accepted, closes, fires, stores>>
    /\ UNCHANGED codecVars

\* lines 125-129: the receive blocks while the buffer is empty and the
\* channel open; a closed channel still yields what is buffered
startRecv ==
    /\ wpc = "recv"
    /\ requestQueue # << >> \/ chanClosed
    /\ IF requestQueue # << >>
         THEN /\ request' = Head(requestQueue)
              /\ requestQueue' = Tail(requestQueue)
              /\ wpc' = "write"
              /\ UNCHANGED <<connClosed, connHist>>
         ELSE /\ wpc' = "exited"
              /\ connClosed' = TRUE
              /\ connHist' = connClose(connHist)
              /\ UNCHANGED <<request, requestQueue>>
    /\ UNCHANGED <<shutdown, chanClosed, reqResponse, reqErr, wg, qpc, ret,
                   spc, accepted, closes, fires, stores>>
    /\ UNCHANGED codecVars

\* a write error that ends start: the error is stored, the deferred Done
\* and conn.Close run, and the loop is left
startWriteFatal ==
    /\ wpc = "write"
    /\ \E werr \in {NoErr, ErrWrite} :
         IF werr # NoErr
           THEN /\ reqErr' = [reqErr EXCEPT ![request] = werr]
                /\ stores' = [stores EXCEPT ![request] = @ + 1]
                /\ wg' = [wg EXCEPT ![request] = @ - 1]
                /\ fires' = [fires EXCEPT ![request] = @ + 1]
                /\ request' = 0
                /\ wpc' = "exited"
                /\ connClosed' = TRUE
                /\ connHist' = connClose(connWrite(connHist, werr))
           ELSE /\ wpc' = "read"
                /\ connHist' = connWrite(connHist, werr)
                /\ UNCHANGED <<reqErr, stores, wg, fires, request, connClosed>>
    /\ UNCHANGED <<shutdown, requestQueue, chanClosed, reqResponse, qpc, ret,
                   spc, accepted, closes>>
    /\ UNCHANGED codecVars

\* a write whose error is dropped: the read follows in either case
startWriteIgnoreErr ==
    /\ wpc = "write"
    /\ \E werr \in {NoErr, ErrWrite} :
         connHist' = connWrite(connHist, werr)
    /\ wpc' = "read"
    /\ UNCHANGED <<shutdown, requestQueue, chanClosed, connClosed,
                   reqResponse, reqErr, stores, wg, qpc, ret, spc, request,
                   accepted, closes, fires>>
    /\ UNCHANGED codecVars

\* a write that does not wait for the answer: the request is completed
\* once its frame is written and the next one is taken up
startWritePipelined ==
    /\ wpc = "write"
    /\ \E werr \in {NoErr, ErrWrite} :
         /\ connHist' = connWrite(connHist, werr)
         /\ reqErr' = [reqErr EXCEPT ![request] = werr]
         /\ reqResponse' =
               [reqResponse EXCEPT ![request] =
                   IF werr = NoErr
                     THEN [ZeroResponse EXCEPT !.Ip = IpString(IpOf(request))]
                     ELSE ZeroResponse]
    /\ stores' = [stores EXCEPT ![request] = @ + 1]
    /\ wpc' = "done"
    /\ UNCHANGED <<shutdown, requestQueue, chanClosed, connClosed, wg, qpc,
                   ret, spc, request, accepted, closes, fires>>
    /\ UNCHANGED codecVars

\* lines 133-136: writeRequest and its error
startWrite ==
    /\ wpc = "write"
    /\ \E werr \in {NoErr, ErrWrite} :
         /\ connHist' = connWrite(connHist, werr)
         /\ IF werr # NoErr
              THEN /\ reqErr' = [reqErr EXCEPT ![request] = werr]
                   /\ stores' = [stores EXCEPT ![request] = @ + 1]
                   /\ wpc' = "done"
              ELSE /\ wpc' = "read"
                   /\ UNCHANGED <<reqErr, stores>>
    /\ UNCHANGED <<shutdown, requestQueue, chanClosed, connClosed,
                   reqResponse, wg, qpc, ret, spc, request, accepted, closes,
                   fires>>
    /\ UNCHANGED codecVars

\* line 137: request.response, request.err = p.readResponse(ip.String())
startRead ==
    /\ wpc = "read"
    /\ \E rd \in DaemonReplies :
         LET res == readResponse(IpString(IpOf(request)), rd) IN
           /\ reqResponse' = [reqResponse EXCEPT ![request] = res[1]]
           /\ reqErr' = [reqErr EXCEPT ![request] = res[2]]
    /\ stores' = [stores EXCEPT ![request] = @ + 1]
    /\ connHist' = connRead(connHist)
    /\ wpc' = "done"
    /\ UNCHANGED <<shutdown, requestQueue, chanClosed, connClosed, wg, qpc,
                   ret, spc, request, accepted, closes, fires>>
    /\ UNCHANGED codecVars

\* line 132: the deferred request.wg.Done(), then back to the loop condition
startDone ==
    /\ wpc = "done"
    /\ wg' = [wg EXCEPT ![request] = @ - 1]
    /\ fires' = [fires EXCEPT ![request] = @ + 1]
    /\ request' = 0
    /\ wpc' = "loop"
    /\ UNCHANGED <<shutdown, requestQueue, chanClosed, connClosed, connHist,
                   reqResponse, reqErr, qpc, ret, spc, accepted, closes,
                   stores>>
    /\ UNCHANGED codecVars

start == startLoop \/ startRecv \/ startWrite \/ startRead \/ startDone

Next ==
    \/ \E c \in Callers : QueryLoad(c)
    \/ \E c \in Callers : QuerySelect(c)
    \/ \E c \in Callers : QueryWait(c)
    \/ \E s \in Stoppers : ShutdownCAS(s)
    \/ \E s \in Stoppers : ShutdownClose(s)
    \/ startLoop
    \/ startRecv
    \/ startWrite
    \/ startRead
    \/ startDone

Spec == Init /\ [][Next]_vars

\* every goroutine that can run is scheduled: start, and a Shutdown call
\* between its CompareAndSwap and its close; the daemon answers (or the
\* socket fails) whenever a request was written
LiveSpec ==
    Spec /\ WF_vars(start) /\ \A s \in Stoppers : WF_vars(ShutdownClose(s))

\* the goroutine start is scheduled whenever it can run, and the daemon
\* answers (or the socket fails) whenever a request was written
FairSpec == Spec /\ WF_vars(start)

(***************************************************************************)
(* The codec on its own: readResponse and trstr applied to one read.       *)
(***************************************************************************)
CodecInit ==
    /\ EngineInit
    /\ cpc = {}
    /\ frame \in CodecReads
    /\ decoded = << >>
    /\ goStr = << >>
    /\ FrontIdle

\* readResponse(ip) on the read
CodecRead ==
    /\ "readResponse" \notin cpc
    /\ decoded' = readResponse(IpString(1), frame)
    /\ cpc' = cpc \cup {"readResponse"}
    /\ UNCHANGED <<frame, goStr, wire, stream, http>>
    /\ UNCHANGED engineVars

\* trstr(r.OsName) on the read's OsName buffer
CodecTrstr ==
    /\ "trstr" \notin cpc
    /\ goStr' = trstr(frame.r.OsName)
    /\ cpc' = cpc \cup {"trstr"}
    /\ UNCHANGED <<frame, decoded, wire, stream, http>>
    /\ UNCHANGED engineVars

CodecNext == CodecRead \/ CodecTrstr

CodecSpec == CodecInit /\ [][CodecNext]_vars

(***************************************************************************)
(* writeRequest, binary.Read and readResponse on bytes.                    *)
(***************************************************************************)
CodecOff ==
    /\ cpc = {}
    /\ frame = << >>
    /\ decoded = << >>
    /\ goStr = << >>

WireInit ==
    /\ EngineInit
    /\ CodecOff
    /\ stream = << >>
    /\ http = << >>
    /\ \E endian \in Endians, ip \in WireIps :
         \E bytes \in WireFrames(endian) :
            wire = [endian |-> endian, ip |-> ip, responseBytes |-> bytes,
                    buffer |-> << >>, rd |-> << >>, resp |-> << >>]

\* lines 143-157: the buffer given to p.conn.Write
WireWriteRequest ==
    /\ wire.buffer = << >>
    /\ wire' = [wire EXCEPT !.buffer = writeRequest(wire.ip, wire.endian)]
    /\ UNCHANGED <<cpc, frame, decoded, goStr, stream, http>>
    /\ UNCHANGED engineVars

\* line 191: binary.Read on the bytes p.conn.Read filled in
WireBinaryRead ==
    /\ wire.rd = << >>
    /\ wire' = [wire EXCEPT !.rd = binaryRead(wire.responseBytes, wire.endian)]
    /\ UNCHANGED <<cpc, frame, decoded, goStr, stream, http>>
    /\ UNCHANGED engineVars

\* lines 194-228: the rest of readResponse on what binary.Read decoded
WireReadResponse ==
    /\ wire.rd # << >>
    /\ wire.resp = << >>
    /\ wire' = [wire EXCEPT !.resp = readResponse(IpString(1), wire.rd)]
    /\ UNCHANGED <<cpc, frame, decoded, goStr, stream, http>>
    /\ UNCHANGED engineVars

WireNext == WireWriteRequest \/ WireBinaryRead \/ WireReadResponse

WireSpec == WireInit /\ [][WireNext]_vars

(***************************************************************************)
(* The exchanges of start over a stream socket that hands over the bytes   *)
(* of the daemon's replies in chunks.  A byte is named by its offset in    *)
(* the stream of replies: the reply to request k is the bytes              *)
(* (k-1)*responseSize .. k*responseSize - 1.                               *)
(***************************************************************************)
Min(a, b) == IF a <= b THEN a ELSE b

StreamInit ==
    /\ EngineInit
    /\ CodecOff
    /\ wire = << >>
    /\ http = << >>
    /\ stream = [pc |-> "write", owed |-> 0, sent |-> 0, consumed |-> 0,
                 got |-> << >>]

\* line 157: the request is written; the daemon owes one reply more
StreamWrite ==
    /\ stream.pc = "write"
    /\ Len(stream.got) < MaxExchanges
    /\ stream' = [stream EXCEPT !.pc = "read", !.owed = @ + responseSize]
    /\ UNCHANGED <<cpc, frame, decoded, goStr, wire, http>>
    /\ UNCHANGED engineVars

\* the socket hands over the next bytes of what the daemon wrote
StreamDeliver ==
    /\ stream.owed > 0
    /\ \E n \in ChunkSizes :
         /\ n <= stream.owed
         /\ stream' = [stream EXCEPT !.owed = @ - n, !.sent = @ + n]
    /\ UNCHANGED <<cpc, frame, decoded, goStr, wire, http>>
    /\ UNCHANGED engineVars

\* line 188: one p.conn.Read into responseSize bytes: it waits for the
\* first byte and returns with what is there, the count is dropped; the
\* exchange goes on to decode the buffer
StreamRead ==
    /\ stream.pc = "read"
    /\ stream.sent > stream.consumed
    /\ LET n == Min(responseSize, stream.sent - stream.consumed)
       IN  stream' = [stream EXCEPT
                        !.pc = "write",
                        !.consumed = @ + n,
                        !.got = Append(@, [from |-> stream.consumed,
                                           n |-> n])]
    /\ UNCHANGED <<cpc, frame, decoded, goStr, wire, http>>
    /\ UNCHANGED engineVars

StreamNext == StreamWrite \/ StreamDeliver \/ StreamRead

StreamSpec == StreamInit /\ [][StreamNext]_vars

(***************************************************************************)
(* The handler of the HTTP front end (main.go, lines 120-157 and 38-75).   *)
(***************************************************************************)
HttpInit ==
    /\ EngineInit
    /\ CodecOff
    /\ wire = << >>
    /\ stream = << >>
    /\ \E method \in Methods, addr \in RemoteAddrs, pretty \in BOOLEAN :
         http = [pc |-> "header", method |-> method, addr |-> addr,
                 pretty |-> pretty, header |-> {}, status |-> 0,
                 body |-> << >>, host |-> "", userIP |-> << >>,
                 queries |-> 0, qret |-> << >>]

\* http.Error: the status and the message as plain text
httpError(h, msg, code) ==
    [h EXCEPT !.pc = "end",
              !.header = HeaderSet(HeaderSet(@, "Content-Type",
                                             "text/plain; charset=utf-8"),
                                   "X-Content-Type-Options", "nosniff"),
              !.status = code,
              !.body = <<msg>>]

\* line 123
HttpHeader ==
    /\ http.pc = "header"
    /\ http' = [http EXCEPT !.pc = "method",
                            !.header = HeaderSet(@, "Connection", "close")]
    /\ UNCHANGED <<cpc, frame, decoded, goStr, wire, stream>>
    /\ UNCHANGED engineVars

\* a handler that answers HEAD as it answers GET
HttpMethodOrHead ==
    /\ http.pc = "method"
    /\ http' =
         IF http.method \notin {"GET", "HEAD"}
           THEN httpError([http EXCEPT !.header = HeaderSet(@, "Allow", "GET")],
                          "", 405)
           ELSE [http EXCEPT !.pc = "split"]
    /\ UNCHANGED <<cpc, frame, decoded, goStr, wire, stream>>
    /\ UNCHANGED engineVars

\* lines 125-129
HttpMethod ==
    /\ http.pc = "method"
    /\ http' =
         IF http.method # "GET"
           THEN httpError([http EXCEPT !.header = HeaderSet(@, "Allow", "GET")],
                          "", 405)
           ELSE [http EXCEPT !.pc = "split"]
    /\ UNCHANGED <<cpc, frame, decoded, goStr, wire, stream>>
    /\ UNCHANGED engineVars

\* lines 131-135
HttpSplit ==
    /\ http.pc = "split"
    /\ LET sp == SplitHostPort(http.addr)
       IN  http' =
             IF sp.err # NoErr
               THEN httpError(http, "invalid source address", 400)
               ELSE [http EXCEPT !.pc = "parse", !.host = sp.host]
    /\ UNCHANGED <<cpc, frame, decoded, goStr, wire, stream>>
    /\ UNCHANGED engineVars

\* lines 137-141
HttpParse ==
    /\ http.pc = "parse"
    /\ http' =
         IF ParseIP(http.host) = << >>
           THEN httpError(http, "invalid source address", 400)
           ELSE [http EXCEPT !.pc = "query", !.userIP = ParseIP(http.host)]
    /\ UNCHANGED <<cpc, frame, decoded, goStr, wire, stream>>
    /\ UNCHANGED engineVars

\* lines 143-147: p.Query(userIP) and its error
HttpQuery ==
    /\ http.pc = "query"
    /\ \E q \in QueryReturns :
         LET h == [http EXCEPT !.queries = @ + 1, !.qret = q]
         IN  http' =
               IF q[2] # NoErr
                 THEN httpError(h, "query error: " \o q[2], 500)
                 ELSE [h EXCEPT !.pc = "encode"]
    /\ UNCHANGED <<cpc, frame, decoded, goStr, wire, stream>>
    /\ UNCHANGED engineVars

\* lines 149-156: the first write of the encoder sends the status 200
HttpEncode ==
    /\ http.pc = "encode"
    /\ http' = [http EXCEPT
                  !.pc = "end",
                  !.header = HeaderSet(@, "Content-Type",
                                       "application/json; charset=UTF-8"),
                  !.status = 200,
                  !.body = <<IF http.pretty THEN "indented" ELSE "compact",
                             http.qret[1]>>]
    /\ UNCHANGED <<cpc, frame, decoded, goStr, wire, stream>>
    /\ UNCHANGED engineVars

HttpNext ==
    HttpHeader \/ HttpMethod \/ HttpSplit \/ HttpParse \/ HttpQuery
        \/ HttpEncode

HttpSpec == HttpInit /\ [][HttpNext]_vars

(***************************************************************************)
(* Properties of the engine.                                               *)
(***************************************************************************)
\* the queries sent on the channel, and those start has received from it
Accepted == {accepted[i] : i \in 1..Len(accepted)}
Queued == {requestQueue[i] : i \in 1..Len(requestQueue)}
Dequeued == Accepted \ Queued
\* exactly one of (result, error) of the request of c is populated
Populated(c) == (reqResponse[c] # ZeroResponse) # (reqErr[c] # NoErr)
Unpopulated(c) == reqResponse[c] = ZeroResponse /\ reqErr[c] = NoErr
\* the callers whose Query returned the error e
Failed(e) == {c \in Callers : ret[c] = <<ZeroResponse, e>>}
\* every caller is past its send
AllSubmitted == \A c \in Callers : qpc[c] \notin {"idle", "select"}

\* C1: Shutdown drains: start exits only after every query that was accepted
\* into the queue (all of them before the close) had its exchange and its
\* completion signal.
C1_ShutdownDrains ==
    wpc = "exited" => \A c \in Accepted : fires[c] = 1

\* C2: a Query call made when the shutdown flag is already set returns the
\* shutdown error in that one step: it enqueues nothing, never waits, and
\* leaves the queue unchanged, also when the queue is full.
C2_QueryAfterShutdown ==
    [][\A c \in Callers :
         (qpc[c] = "idle" /\ shutdown /\ qpc'[c] # "idle") =>
            /\ qpc'[c] = "returned"
            /\ ret'[c] = <<ZeroResponse, ErrShutdown>>
            /\ requestQueue' = requestQueue
            /\ accepted' = accepted
            /\ wg'[c] = 0]_vars

\* C2 witness: a call failed with the shutdown error while the queue is full
\* and nothing has been received from it
C2_Witness ==
    /\ Failed(ErrShutdown) # {}
    /\ Len(requestQueue) = requestChanSize
    /\ accepted = requestQueue

\* C3: the queue never holds more than its capacity, and a Query call whose
\* send finds the queue at capacity returns the capacity error in that step
\* without adding its query.
C3_CapacityFailFast ==
    [][/\ Len(requestQueue') <= requestChanSize
       /\ \A c \in Callers :
            (qpc[c] = "select" /\ Len(requestQueue) = requestChanSize
                /\ qpc'[c] # "select") =>
               /\ qpc'[c] = "returned"
               /\ ret'[c] = <<ZeroResponse, ErrCapacity>>
               /\ requestQueue' = requestQueue]_vars

\* C4: queries complete in the order of acceptance: when start has received
\* a query b from the queue, the completion signal of every query accepted
\* before b has fired.
C4_FifoCompletion ==
    \A i, j \in 1..Len(accepted) :
        (i < j /\ accepted[j] \in Dequeued) => fires[accepted[i]] = 1

\* C4 witness: two queries were in the queue together, the older has
\* completed and start holds the younger
C4_Witness ==
    /\ Len(accepted) >= 2
    /\ fires[accepted[1]] = 1
    /\ request = accepted[2]
    /\ wpc = "write"

Winners == closes + Cardinality({s \in Stoppers : spc[s] = "close"})

\* C6: Shutdown is idempotent and one-way: the flag is set exactly when one
\* call has won the transition, that call alone closes the queue, the queue
\* is closed at most once, a call that loses changes nothing, and the flag
\* is never cleared.
C6_ShutdownOnce ==
    [][/\ closes' <= 1
       /\ shutdown' <=> (Winners' = 1)
       /\ chanClosed' <=> (closes' = 1)
       /\ shutdown => shutdown'
       /\ \A s \in Stoppers :
            (spc[s] = "idle" /\ spc'[s] = "done") =>
               /\ shutdown' = shutdown
               /\ chanClosed' = chanClosed
               /\ requestQueue' = requestQueue
               /\ closes' = closes]_vars

\* C6 witness: a second call of Shutdown lost the transition and returned
\* while the winning call had not yet closed the queue
C6_Witness ==
    \E s, t \in Stoppers :
        /\ spc[s] = "close"
        /\ spc[t] = "done"
        /\ shutdown /\ ~chanClosed /\ closes = 0

\* C7: a failed exchange stores its error in the query of that exchange
\* only; start does not exit while Shutdown has not been called; and every
\* queued query is completed, unless Shutdown is called first.
C7_FailureIsolation ==
    /\ [][/\ \A c \in Callers :
               (reqErr'[c] # reqErr[c] \/ reqResponse'[c] # reqResponse[c])
                  => c = request
          /\ ~shutdown' => wpc' # "exited"]_vars
    /\ \A c \in Callers :
          (c \in Queued) ~> (fires[c] = 1 \/ shutdown)

\* C7 witness: without Shutdown, an exchange failed and a query accepted
\* after it completed with a result
C7_Witness ==
    /\ ~shutdown
    /\ Len(accepted) >= 2
    /\ fires[accepted[1]] = 1 /\ reqErr[accepted[1]] # NoErr
    /\ fires[accepted[2]] = 1 /\ reqErr[accepted[2]] = NoErr

\* C8 as stated: once N > capacity callers have submitted (Shutdown not
\* called), at least N - capacity of them failed with the capacity error,
\* and no caller stays blocked once its completion signal has fired.
C8_AtLeastNMinusCapacityFail ==
    /\ (AllSubmitted /\ ~shutdown) =>
          Cardinality(Failed(ErrCapacity)) >= NumCallers - requestChanSize
    /\ \A c \in Callers :
          (qpc[c] = "wait" /\ fires[c] = 1) => ENABLED QueryWait(c)

\* C8 amended: the queries start has already received make room, so at
\* least N - capacity - (number received by start) submissions failed with
\* the capacity error; those failed in their send step, without waiting;
\* and no caller stays blocked once its completion signal has fired.
C8_CapacityFailures ==
    /\ (AllSubmitted /\ ~shutdown) =>
          /\ Cardinality(Failed(ErrCapacity))
                >= NumCallers - requestChanSize - Cardinality(Dequeued)
          /\ Cardinality(Failed(ErrCapacity)) + Len(accepted) = NumCallers
    /\ \A c \in Failed(ErrCapacity) : c \notin Accepted /\ fires[c] = 0
    /\ \A c \in Callers :
          (qpc[c] = "wait" /\ fires[c] = 1) => ENABLED QueryWait(c)

\* C8 witness: every caller has submitted, fewer than N - capacity failed
C8_Witness ==
    /\ AllSubmitted
    /\ ~shutdown
    /\ NumCallers > requestChanSize
    /\ Cardinality(Failed(ErrCapacity)) < NumCallers - requestChanSize
    /\ \E c \in Callers : qpc[c] = "wait" /\ fires[c] = 1

\* C14: one exchange at a time on a connection only start touches: the
\* connection's history changes in steps of start alone; a request frame
\* is written only when every query received before has had its exchange
\* and its completion signal and nothing is unanswered on the socket; at
\* most one written request is ever unanswered.
C14_OneExchangeAtATime ==
    [][/\ connHist'.unanswered <= 1
       /\ (connHist' # connHist \/ connClosed' # connClosed) =>
              (qpc' = qpc /\ spc' = spc /\ wpc' # wpc)
       /\ (wpc = "write" /\ wpc' # wpc) =>
              /\ connHist.unanswered = 0
              /\ \A d \in Dequeued \ {request} :
                    stores[d] = 1 /\ fires[d] = 1]_vars

\* C14 witness: the frame of a second query is on the socket after the
\* first query has completed
C14_Witness ==
    /\ wpc = "read"
    /\ connHist.unanswered = 1
    /\ \E d \in Dequeued \ {request} : fires[d] = 1

\* C15: the connection is closed exactly when start has left its loop, it
\* is closed once, nothing is written or read after the close; and once
\* the shutdown flag is set, start exits and the connection is closed.
C15_ConnectionRelease ==
    /\ [][/\ connHist'.closes = (IF wpc' = "exited" THEN 1 ELSE 0)
          /\ connClosed' <=> (wpc' = "exited")
          /\ connHist'.late = 0]_vars
    /\ shutdown ~> (wpc = "exited" /\ connClosed)

\* C15 witness: start found the queue closed and empty after completing a
\* query, and has closed the connection
C15_Witness ==
    /\ wpc = "exited"
    /\ connHist.closes = 1
    /\ chanClosed /\ requestQueue = << >>
    /\ \E c \in Accepted : fires[c] = 1

\* C16: no interleaving of Query with Shutdown makes Query send on the
\* closed queue: no call of Query ends in the panic of such a send.
C16_QueryShutdownRaceSafe ==
    \A c \in Callers : qpc[c] # "panicked"

\* C17: start reads only after the write of the same query's frame
\* returned without error; a failed write completes the query with the
\* write error and the empty result, and the step after it is the
\* completion signal, with no read in between.
C17_WriteBeforeRead ==
    [][/\ (wpc' = "read" /\ wpc # "read") =>
              /\ wpc = "write"
              /\ request' = request
              /\ connHist'.unanswered = connHist.unanswered + 1
              /\ stores'[request] = 0 /\ reqErr'[request] = NoErr
       /\ (wpc = "write" /\ wpc' # "write"
              /\ connHist'.unanswered = connHist.unanswered) =>
              /\ wpc' = "done"
              /\ reqErr'[request] = ErrWrite
              /\ reqResponse'[request] = ZeroResponse
       /\ connHist'.unanswered < connHist.unanswered => wpc = "read"
       /\ (wpc = "done" /\ wpc' # "done") =>
              /\ fires'[request] = 1
              /\ connHist' = connHist
              /\ reqErr' = reqErr /\ reqResponse' = reqResponse]_vars

\* C17 witness: a query completed with the write error and no result
C17_Witness ==
    \E c \in Accepted :
        /\ fires[c] = 1
        /\ reqErr[c] = ErrWrite
        /\ reqResponse[c] = ZeroResponse

(***************************************************************************)
(* Properties of the codec.                                                *)
(***************************************************************************)
\* the Go offsets of the zero bytes of a buffer
Nulls(cStr) == {i \in 0..(Len(cStr) - 1) : cStr[i + 1] = 0}
\* the least element of a non-empty set of offsets
Least(S) == CHOOSE i \in S : \A j \in S : i <= j

\* C9: readResponse on a frame that was read: a populated result (the
\* fields of the frame, for the address asked) exactly when the magic is
\* 0x50304602 and the status 0x10; a wrong magic gives the magic error
\* whatever the status; with the right magic, status 0x00 gives "bad query",
\* 0x20 "no match", any other the unknown-status error; and every error
\* comes with the zero result.
C9_ResponseClassification ==
    ("readResponse" \in cpc /\ frame.err = NoErr) =>
        LET r == frame.r
            resp == decoded[1]
            err == decoded[2]
            good == r.Magic = 1345340930 /\ r.Status = 16
        IN  /\ (resp # ZeroResponse) <=> good
            /\ good =>
                  /\ err = NoErr
                  /\ resp.Ip = IpString(1)
                  /\ <<resp.FirstSeen, resp.LastSeen, resp.TotalCount,
                       resp.UptimeMin, resp.UpModDays, resp.LastNat,
                       resp.LastChg, resp.Distance, resp.BadSw,
                       resp.OsMatchQ, resp.LinkMtu>>
                     = <<r.FirstSeen, r.LastSeen, r.TotalCount, r.UptimeMin,
                         r.UpModDays, r.LastNat, r.LastChg, r.Distance,
                         r.BadSw, r.OsMatchQ, r.LinkMtu>>
            /\ r.Magic # 1345340930 => err = ErrMagic
            /\ (r.Magic = 1345340930 /\ r.Status = 0) => err = ErrBadQuery
            /\ (r.Magic = 1345340930 /\ r.Status = 32) => err = ErrNoMatch
            /\ (r.Magic = 1345340930 /\ r.Status \notin {0, 16, 32}) =>
                  err = "unknown response code " \o ToString(r.Status)
            /\ err # NoErr => resp = ZeroResponse

\* C9 witness: a frame with a wrong magic and status 0x10 was decoded
C9_Witness ==
    /\ "readResponse" \in cpc
    /\ frame.err = NoErr
    /\ frame.r.Magic # magicBytesRcv
    /\ frame.r.Status = resultOk
    /\ decoded = <<ZeroResponse, ErrMagic>>

\* C10: trstr on a 32-byte buffer: null when byte 0 is zero; otherwise the
\* bytes before the first zero byte, or all 32 bytes when none is zero; so a
\* value is never the empty string and never holds a zero byte.
C10_FixedStringDecode ==
    "trstr" \in cpc =>
        LET b == frame.r.OsName IN
            /\ Len(b) = 32
            /\ b[1] = 0 => goStr = NilStr /\ goStr # StrPtr(<< >>)
            /\ (b[1] # 0 /\ Nulls(b) # {}) =>
                  /\ Least(Nulls(b)) \in 1..31
                  /\ goStr = StrPtr([k \in 1..Least(Nulls(b)) |-> b[k]])
            /\ Nulls(b) = {} => goStr = StrPtr(b)
            /\ ~goStr.null =>
                  /\ goStr.str # << >>
                  /\ \A k \in 1..Len(goStr.str) : goStr.str[k] # 0

\* C10 witness: a buffer whose only zero byte is the last one, with a
\* 31-byte value
C10_Witness ==
    /\ "trstr" \in cpc
    /\ Nulls(frame.r.OsName) = {31}
    /\ ~goStr.null
    /\ Len(goStr.str) = 31

(***************************************************************************)
(* Properties of the bytes on the wire, of the stream and of the handler.  *)
(***************************************************************************)
Written == wire.buffer # << >>

\* the parts of C11 that hold for every address
RequestFrameShape ==
    /\ Len(wire.buffer) = requestSize
    /\ Uint(SubSeq(wire.buffer, 1, 4), wire.endian) = magicBytesSend

Family4(addr) ==
    /\ wire.buffer[5] = ipv4Dword
    /\ SubSeq(wire.buffer, 6, 9) = addr
    /\ SubSeq(wire.buffer, 10, requestSize) = Zeros(12)

Family6(addr) ==
    /\ wire.buffer[5] = ipv6Dword
    /\ SubSeq(wire.buffer, 6, requestSize) = addr

\* C11 as stated: the frame is 21 bytes and starts with the magic; a
\* 4-byte address gives family 4, the address and 12 zero bytes; every
\* 16-byte address gives family 6 and its 16 bytes.
C11_RequestEncoding ==
    Written =>
        /\ RequestFrameShape
        /\ Len(wire.ip) = 4 => Family4(wire.ip)
        /\ Len(wire.ip) = 16 => Family6(wire.ip)

\* C11 amended: the frame is 21 bytes and starts with the magic in the
\* machine's byte order; a 4-byte address and a 16-byte IPv4-mapped
\* address (::ffff:a.b.c.d) give family 4, the four address bytes and 12
\* zero bytes; every other 16-byte address gives family 6 and its 16
\* bytes.
C11_RequestEncodingMapped ==
    Written =>
        /\ RequestFrameShape
        /\ Len(wire.ip) = 4 => Family4(wire.ip)
        /\ IsV4Mapped(wire.ip) => Family4(SubSeq(wire.ip, 13, 16))
        /\ (Len(wire.ip) = 16 /\ ~IsV4Mapped(wire.ip)) => Family6(wire.ip)

\* C11 witness: the frame of a 16-byte IPv4-mapped address, with family 4
C11_Witness ==
    /\ Written
    /\ Len(wire.ip) = 16
    /\ wire.buffer[5] = ipv4Dword
    /\ wire.buffer[6] = 192

HeaderHas(name, value) == <<name, value>> \in http.header

\* the caller address can be parsed: it splits into host and port and the
\* host is the text of an IP address
Parseable(addr) ==
    /\ SplitHostPort(addr).err = NoErr
    /\ ParseIP(SplitHostPort(addr).host) # << >>

\* C12: every response carries Connection: close; a non-GET request ends
\* in 405 with Allow: GET and an unparseable caller address in 400, both
\* without a query; every other request makes exactly one query and ends
\* in 500 when the query failed and in 200 when it succeeded.
C12_HttpOutcomeOrder ==
    /\ http.status # 0 => HeaderHas("Connection", "close")
    /\ http.status # 0 <=> http.pc = "end"
    /\ http.queries <= 1
    /\ http.pc = "end" =>
         IF http.method # "GET"
           THEN /\ http.status = 405
                /\ HeaderHas("Allow", "GET")
                /\ http.queries = 0
         ELSE IF ~Parseable(http.addr)
           THEN http.status = 400 /\ http.queries = 0
         ELSE /\ http.queries = 1
              /\ http.status = (IF http.qret[2] # NoErr THEN 500 ELSE 200)

\* C12 witness: a GET from a parseable address whose one query failed for
\* want of capacity, answered with 500
C12_Witness ==
    /\ http.pc = "end"
    /\ http.method = "GET"
    /\ http.queries = 1
    /\ http.qret[2] = ErrCapacity
    /\ http.status = 500
    /\ HeaderHas("Connection", "close")

\* C13: the k-th exchange reads the responseSize bytes of the reply to
\* the k-th request, whatever chunks the socket hands over.
C13_ReadsOneWholeFrame ==
    \A k \in 1..Len(stream.got) :
        /\ stream.got[k].from = (k - 1) * responseSize
        /\ stream.got[k].n = responseSize

\* the fields that cover byte i of the frame
FieldsAt(i) ==
    {k \in 1..Len(FieldSizes) : FieldEnd(k - 1) < i /\ i <= FieldEnd(k)}

\* C18: the fields of the response laid end to end are the responseSize
\* bytes read per exchange, every byte of them belongs to a field, and a
\* frame with status resultOk decodes each numeric field to the number
\* its own bytes stand for.
C18_FrameLayout ==
    wire.rd # << >> =>
        /\ binarySize = responseSize
        /\ \A i \in 1..responseSize : FieldsAt(i) # {}
        /\ wire.rd.err = NoErr
        /\ \A k \in NumericFields :
              wire.rd.r[FieldNames[k]] =
                  Uint(FieldBytes(wire.responseBytes, k), wire.endian)
====
